---- MODULE Spec2Model ----
(***************************************************************************)
(* Binding-and-evaluation runtime of jsonata-go's new API                  *)
(* (src/jsonata_new.go): CompiledExpression, its copy-on-write registry,   *)
(* Evaluator, and the environment newEnv builds for each Eval.             *)
(*                                                                         *)
(* Pointers are indices: a *CompiledExpression is an index into ces, an    *)
(* *Evaluator an index into evs, a map[string]reflect.Value an index into  *)
(* maps, and 0 is the nil pointer or the nil map.  The Expressions of the   *)
(* Compiler API are entries of ces too, and compilers holds its Compilers.  *)
(*  The contents of a map    *)
(* are a function from names to reflect values.                            *)
(***************************************************************************)
EXTENDS Integers, Sequences, FiniteSets, TLC

VARIABLES ces, evs, compilers, maps, frames, ctx, clock, ret

vars == <<ces, evs, compilers, maps, frames, ctx, clock, ret>>

(***************************************************************************)
(* Bounds of the model.                                                    *)
(***************************************************************************)
MaxCes == 2
MaxEvs == 2
NProcs == 2
MaxClock == 1
MaxCesReg == 3
MaxEvsSeq == 1
NMain == 1

Procs == 1..NProcs

(***************************************************************************)
(* Names.  A name is the sequence of its characters, so that validation    *)
(* looks at every character as the code does.                              *)
(***************************************************************************)
Letters == {"a","b","c","d","e","f","g","h","i","j","k","l","m","n","o","p","q","r","s","t","u","v","w","x","y","z","A","B","C","D","E","F","G","H","I","J","K","L","M","N","O","P","Q","R","S","T","U","V","W","X","Y","Z"}

Digits == {"0","1","2","3","4","5","6","7","8","9"}

isLetter(r) == r \in Letters

isDigit(r) == r \in Digits

validName(s) == \A i \in 1..Len(s) : isLetter(s[i]) \/ isDigit(s[i]) \/ s[i] = "_"

NGreet == <<"g","r","e","e","t">>
NTwice == <<"t","w","i","c","e">>
NX1 == <<"x","_","1">>
NSubstring == <<"s","u","b","s","t","r","i","n","g">>
NNow == <<"n","o","w">>
NMillis == <<"m","i","l","l","i","s">>
NDash == <<"a","-","b">>
NDollar == <<"$">>

(***************************************************************************)
(* reflect.Value.  valid is IsValid(), canIface is CanInterface(), ptrNil  *)
(* is Kind() == reflect.Ptr && IsNil().  A value that holds a *goCallable  *)
(* has callable = TRUE, the wrapped function's name in v, the identity of  *)
(* the goCallable instance in id and, for a time callable, the instant it  *)
(* was built from in t.                                                    *)
(***************************************************************************)
NoId == [site |-> "none", idx |-> 0, name |-> <<>>, clone |-> 0]

InstId(site, idx, name) == [site |-> site, idx |-> idx, name |-> name, clone |-> 0]

RVInvalid == [valid |-> FALSE, canIface |-> FALSE, ptrNil |-> FALSE, callable |-> FALSE, v |-> "", id |-> NoId, t |-> -1]

RVNull == [valid |-> TRUE, canIface |-> TRUE, ptrNil |-> TRUE, callable |-> FALSE, v |-> "null", id |-> NoId, t |-> -1]

RVVal(x) == [valid |-> TRUE, canIface |-> TRUE, ptrNil |-> FALSE, callable |-> FALSE, v |-> x, id |-> NoId, t |-> -1]

RVUnexported(x) == [valid |-> TRUE, canIface |-> FALSE, ptrNil |-> FALSE, callable |-> FALSE, v |-> x, id |-> NoId, t |-> -1]

RVCallable(fn, id, t) == [valid |-> TRUE, canIface |-> TRUE, ptrNil |-> FALSE, callable |-> TRUE, v |-> fn, id |-> id, t |-> t]

\* reflect.ValueOf(x) for the Go values the model passes around: the untyped
\* nil gives the zero Value, the null pointer a nil Ptr, anything else itself.
ValueOf(x) == IF x = "nil" THEN RVInvalid ELSE IF x = "null" THEN RVNull ELSE RVVal(x)

EmptyReg == [n \in {} |-> RVInvalid]

\* A vars or exts argument that is nil.
NoArg == [n \in {} |-> ""]

(***************************************************************************)
(* Registry composition.                                                   *)
(***************************************************************************)
SupportedFuncs == {"Twice"}

\* processVars: every name is validated, every value becomes a reflect.Value.
processVarsErr(vs) == IF \E n \in DOMAIN vs : ~validName(n) THEN {"ValidationError"} ELSE {}

processVars(vs) == [n \in DOMAIN vs |-> ValueOf(vs[n])]

\* processExts: every name is validated and every function's signature must
\* be a supported shape.  The entries of a Go map are visited in no fixed
\* order, so a batch with both faults may report either.
processExtsErr(exts) ==
    (IF \E n \in DOMAIN exts : ~validName(n) THEN {"ValidationError"} ELSE {})
    \cup (IF \E n \in DOMAIN exts : exts[n] \notin SupportedFuncs THEN {"SignatureError"} ELSE {})

\* Each extension is wrapped in a goCallable of its own, allocated by this call
\* for the object (site, idx) that is being built or registered into.
processExts(exts, site, idx) == [n \in DOMAIN exts |-> RVCallable(exts[n], InstId(site, idx, n), -1)]

\* The copy loops of WithExts/WithVars: all of old, then all of values on top.
MergeLoopsBaseWins(old, values) == [k \in DOMAIN old \cup DOMAIN values |-> IF k \in DOMAIN old THEN old[k] ELSE values[k]]

MergeLoops(old, values) == [k \in DOMAIN old \cup DOMAIN values |-> IF k \in DOMAIN values THEN values[k] ELSE old[k]]

(***************************************************************************)
(* Parsing (jparse.Parse): source text to expression tree, or an error.    *)
(***************************************************************************)
SrcRoot == "$"
SrcGreet == "$greet"
SrcApply == "$ ~> $twice()"
SrcNow == "$now() = $now()"
SrcBad == "1 +"

Sources == {SrcRoot, SrcGreet, SrcApply, SrcNow, SrcBad}

ParseOk(src) == src # SrcBad

Parse(src) ==
    CASE src = SrcRoot -> [type |-> "var", name |-> NDollar]
      [] src = SrcGreet -> [type |-> "var", name |-> NGreet]
      [] src = SrcApply -> [type |-> "apply", name |-> NTwice]
      [] src = SrcNow -> [type |-> "eqcalls", name |-> NNow]
      [] OTHER -> [type |-> "none", name |-> <<>>]

(***************************************************************************)
(* Results of the API calls, kept for the properties: the last call, its   *)
(* receiver, its argument and what it returned.                            *)
(***************************************************************************)
Ret(op, recv, vs, exts, res, err) == [op |-> op, recv |-> recv, vs |-> vs, exts |-> exts, res |-> res, err |-> err]

NoRet == Ret("none", 0, NoArg, NoArg, 0, "nil")

(***************************************************************************)
(* Frames: one per goroutine, idle when it is not inside a call.  In a     *)
(* call that runs in several steps op is the call, values the processed    *)
(* batch it copies, newm the map it is building and visited the keys a     *)
(* range loop over a map has produced so far.                              *)
(***************************************************************************)
NoOut == [isNil |-> TRUE, val |-> "", err |-> "nil"]

IdleFrame == [pc |-> "idle", ev |-> 0, expr |-> 0, override |-> 0, callVars |-> NoArg, input |-> RVInvalid, env |-> EmptyReg, acc |-> RVInvalid, res |-> RVInvalid, rerr |-> "nil", out |-> NoOut, op |-> "none", values |-> EmptyReg, newm |-> 0, visited |-> {}]

Init ==
    /\ ces = <<>>
    /\ evs = <<>>
    /\ compilers = <<>>
    /\ maps = [m \in {} |-> EmptyReg]
    /\ frames = [g \in Procs |-> IdleFrame]
    /\ ctx = [i \in {} |-> RVInvalid]
    /\ clock = 0
    /\ ret = NoRet

\* The contents of the map m points to; ranging over a nil map visits nothing.
Reg(m) == IF m = 0 THEN EmptyReg ELSE maps[m]

\* make(map[string]reflect.Value, n): the address of a map no one else holds.
FreshMap == CHOOSE m \in 1..(Cardinality(DOMAIN maps) + 1) : m \notin DOMAIN maps

MakeMapReuse(old) == IF old # 0 THEN old ELSE FreshMap

MakeMap(old) == FreshMap

\* The heap after the map m has been given the contents r.
Store(m, r) == [k \in DOMAIN maps \cup {m} |-> IF k = m THEN r ELSE maps[k]]

(***************************************************************************)
(* CompileExpression (src/jsonata_new.go:23-32).                           *)
(***************************************************************************)
CompileExpression(expr, max) ==
    /\ Len(ces) < max
    /\ IF ~ParseOk(expr)
         THEN /\ ret' = Ret("CompileExpression", 0, NoArg, NoArg, 0, "SyntaxError")
              /\ UNCHANGED ces
         ELSE /\ ces' = Append(ces, [node |-> Parse(expr), baseRegistry |-> 0])
              /\ ret' = Ret("CompileExpression", 0, NoArg, NoArg, Len(ces) + 1, "nil")
    /\ UNCHANGED <<compilers, evs, maps, frames, ctx, clock>>

(***************************************************************************)
(* WithExts (src/jsonata_new.go:36-56).                                    *)
(***************************************************************************)
WithExts(c, exts, max) ==
    /\ c \in DOMAIN ces
    /\ Len(ces) < max
    /\ \/ /\ \E err \in processExtsErr(exts) :
               ret' = Ret("WithExts", c, NoArg, exts, 0, err)
          /\ UNCHANGED <<ces, maps>>
       \/ /\ processExtsErr(exts) = {}
          /\ LET values == processExts(exts, "ce", Len(ces) + 1)
                 old == ces[c].baseRegistry
                 newm == MakeMap(old)
             IN  /\ maps' = Store(newm, MergeLoops(Reg(old), values))
                 /\ ces' = Append(ces, [node |-> ces[c].node, baseRegistry |-> newm])
                 /\ ret' = Ret("WithExts", c, NoArg, exts, Len(ces) + 1, "nil")
    /\ UNCHANGED <<compilers, evs, frames, ctx, clock>>

(***************************************************************************)
(* WithVars (src/jsonata_new.go:60-80).                                    *)
(***************************************************************************)
WithVarsPartial(c, vs, max) ==
    /\ c \in DOMAIN ces
    /\ Len(ces) < max
    /\ LET good == {n \in DOMAIN vs : validName(n)}
           values == processVars([n \in good |-> vs[n]])
           old == ces[c].baseRegistry
           newm == MakeMap(old)
       IN  /\ maps' = Store(newm, MergeLoops(Reg(old), values))
           /\ ces' = Append(ces, [node |-> ces[c].node, baseRegistry |-> newm])
           /\ \/ \E err \in processVarsErr(vs) : ret' = Ret("WithVars", c, vs, NoArg, 0, err)
              \/ /\ processVarsErr(vs) = {}
                 /\ ret' = Ret("WithVars", c, vs, NoArg, Len(ces) + 1, "nil")
    /\ UNCHANGED <<compilers, evs, frames, ctx, clock>>

WithVarsUnchecked(c, vs, max) ==
    /\ c \in DOMAIN ces
    /\ Len(ces) < max
    /\ LET values == processVars(vs)
           old == ces[c].baseRegistry
           newm == MakeMap(old)
       IN  /\ maps' = Store(newm, MergeLoops(Reg(old), values))
           /\ ces' = Append(ces, [node |-> ces[c].node, baseRegistry |-> newm])
           /\ ret' = Ret("WithVars", c, vs, NoArg, Len(ces) + 1, "nil")
    /\ UNCHANGED <<compilers, evs, frames, ctx, clock>>

WithVars(c, vs, max) ==
    /\ c \in DOMAIN ces
    /\ Len(ces) < max
    /\ \/ /\ \E err \in processVarsErr(vs) :
               ret' = Ret("WithVars", c, vs, NoArg, 0, err)
          /\ UNCHANGED <<ces, maps>>
       \/ /\ processVarsErr(vs) = {}
          /\ LET values == processVars(vs)
                 old == ces[c].baseRegistry
                 newm == MakeMap(old)
             IN  /\ maps' = Store(newm, MergeLoops(Reg(old), values))
                 /\ ces' = Append(ces, [node |-> ces[c].node, baseRegistry |-> newm])
                 /\ ret' = Ret("WithVars", c, vs, NoArg, Len(ces) + 1, "nil")
    /\ UNCHANGED <<compilers, evs, frames, ctx, clock>>

(***************************************************************************)
(* NewEvaluator (src/jsonata_new.go:84-89).  owner is the goroutine that   *)
(* made the call; the code keeps no such field, it names the goroutine the *)
(* one-Evaluator-per-goroutine rule gives the Evaluator to.                *)
(***************************************************************************)
Returned(g) == frames[g].pc \in {"idle", "done"}

NewEvaluatorSharedExtras(g, c, max) ==
    /\ c \in DOMAIN ces
    /\ Len(evs) < max
    /\ Returned(g)
    /\ LET sib == {e \in DOMAIN evs : evs[e].expression = c}
           extras == IF sib # {} THEN evs[CHOOSE e \in sib : TRUE].extras ELSE MakeMap(0)
       IN  /\ maps' = IF sib # {} THEN maps ELSE Store(extras, EmptyReg)
           /\ evs' = Append(evs, [expression |-> c, extras |-> extras, owner |-> g])
    /\ ret' = Ret("NewEvaluator", c, NoArg, NoArg, Len(evs) + 1, "nil")
    /\ UNCHANGED <<compilers, ces, frames, ctx, clock>>

NewEvaluator(g, c, max) ==
    /\ c \in DOMAIN ces
    /\ Len(evs) < max
    /\ Returned(g)
    /\ LET extras == MakeMap(0)
       IN  /\ maps' = Store(extras, EmptyReg)
           /\ evs' = Append(evs, [expression |-> c, extras |-> extras, owner |-> g])
    /\ ret' = Ret("NewEvaluator", c, NoArg, NoArg, Len(evs) + 1, "nil")
    /\ UNCHANGED <<compilers, ces, frames, ctx, clock>>

(***************************************************************************)
(* RegisterExts (src/jsonata_new.go:100-109), called by goroutine g.  The  *)
(* call ends whatever result of an earlier Eval g was still holding.       *)
(***************************************************************************)
AssignLoopKeepFirst(extras, values) == [k \in DOMAIN extras \cup DOMAIN values |-> IF k \in DOMAIN extras THEN extras[k] ELSE values[k]]

AssignLoop(extras, values) == [k \in DOMAIN extras \cup DOMAIN values |-> IF k \in DOMAIN values THEN values[k] ELSE extras[k]]

RegisterExts(g, e, exts) ==
    /\ e \in DOMAIN evs
    /\ Returned(g)
    /\ \/ /\ \E err \in processExtsErr(exts) :
               ret' = Ret("RegisterExts", e, NoArg, exts, 0, err)
          /\ UNCHANGED maps
       \/ /\ processExtsErr(exts) = {}
          /\ LET values == processExts(exts, "ev", e)
             IN  maps' = [maps EXCEPT ![evs[e].extras] = AssignLoop(@, values)]
          /\ ret' = Ret("RegisterExts", e, NoArg, exts, 0, "nil")
    /\ frames' = [frames EXCEPT ![g] = IdleFrame]
    /\ UNCHANGED <<compilers, ces, evs, ctx, clock>>

(***************************************************************************)
(* RegisterVars (src/jsonata_new.go:112-121), called by goroutine g.       *)
(***************************************************************************)
RegisterVarsUnchecked(g, e, vs) ==
    /\ e \in DOMAIN evs
    /\ Returned(g)
    /\ LET values == processVars(vs)
       IN  maps' = [maps EXCEPT ![evs[e].extras] = AssignLoop(@, values)]
    /\ ret' = Ret("RegisterVars", e, vs, NoArg, 0, "nil")
    /\ frames' = [frames EXCEPT ![g] = IdleFrame]
    /\ UNCHANGED <<compilers, ces, evs, ctx, clock>>

RegisterVarsPartial(g, e, vs) ==
    /\ e \in DOMAIN evs
    /\ Returned(g)
    /\ LET good == {n \in DOMAIN vs : validName(n)}
           values == processVars([n \in good |-> vs[n]])
       IN  maps' = [maps EXCEPT ![evs[e].extras] = AssignLoop(@, values)]
    /\ \/ \E err \in processVarsErr(vs) : ret' = Ret("RegisterVars", e, vs, NoArg, 0, err)
       \/ /\ processVarsErr(vs) = {}
          /\ ret' = Ret("RegisterVars", e, vs, NoArg, 0, "nil")
    /\ frames' = [frames EXCEPT ![g] = IdleFrame]
    /\ UNCHANGED <<compilers, ces, evs, ctx, clock>>

RegisterVars(g, e, vs) ==
    /\ e \in DOMAIN evs
    /\ Returned(g)
    /\ \/ /\ \E err \in processVarsErr(vs) :
               ret' = Ret("RegisterVars", e, vs, NoArg, 0, err)
          /\ UNCHANGED maps
       \/ /\ processVarsErr(vs) = {}
          /\ LET values == processVars(vs)
             IN  maps' = [maps EXCEPT ![evs[e].extras] = AssignLoop(@, values)]
          /\ ret' = Ret("RegisterVars", e, vs, NoArg, 0, "nil")
    /\ frames' = [frames EXCEPT ![g] = IdleFrame]
    /\ UNCHANGED <<compilers, ces, evs, ctx, clock>>

\* One Evaluator per goroutine: g uses only the Evaluators it created.
Owns(g, e) == e \in DOMAIN evs /\ evs[e].owner = g

(***************************************************************************)
(* The environment of one evaluation.  env is the symbol table of the      *)
(* child environment newEnv creates; its parent is baseEnv, the            *)
(* process-wide environment of the built-ins.                              *)
(***************************************************************************)
BaseEnv == [n \in {NSubstring} |-> RVCallable("substring", InstId("root", 0, n), -1)]

\* timeCallables(t): $now and $millis as callables closed over the instant t,
\* made anew by every call (here for the evaluation of goroutine g).
timeCallables(t, g) == [n \in {NNow, NMillis} |-> RVCallable(IF n = NNow THEN "now" ELSE "millis", InstId("tc", g, n), t)]

\* What a time callable returns when it is called at clock clk.
TimeCall(fn, clk) == fn.t

isTime(fn) == fn.valid /\ fn.callable /\ fn.v \in {"now", "millis"}

\* v.IsValid() && v.CanInterface() && v.Interface().(*goCallable) succeeds.
isGoCallable(v) == v.valid /\ v.canIface /\ v.callable

\* goCallable.clone(): a copy of the callable that is an instance of its own,
\* here the one made for the evaluation of goroutine g.
clone(v, g) == [v EXCEPT !.id.clone = g]

bind(env, name, v) == [k \in DOMAIN env \cup {name} |-> IF k = name THEN v ELSE env[k]]

bindAll(env, m) == [k \in DOMAIN env \cup DOMAIN m |-> IF k \in DOMAIN m THEN m[k] ELSE env[k]]

\* environment.lookup: the child's own symbols first, then the parent's.
lookup(env, name) ==
    IF name \in DOMAIN env THEN env[name]
    ELSE IF name \in DOMAIN BaseEnv THEN BaseEnv[name]
    ELSE RVInvalid

\* newEnv lines 158-167: a clone of every built-in callable of baseEnv.
CloneBuiltinsShared(env, g) == [k \in DOMAIN env \cup DOMAIN BaseEnv |-> IF k \in DOMAIN BaseEnv THEN BaseEnv[k] ELSE env[k]]

CloneBuiltins(env, g) ==
    LET gcs == {n \in DOMAIN BaseEnv : isGoCallable(BaseEnv[n])}
    IN  [k \in DOMAIN env \cup gcs |-> IF k \in gcs THEN clone(BaseEnv[k], g) ELSE env[k]]

\* newEnv lines 170-178 and 181-189: every entry of a registry is bound, a
\* goCallable as a clone and anything else as it is.
BindRegistryShared(env, reg, g) == [k \in DOMAIN env \cup DOMAIN reg |-> IF k \in DOMAIN reg THEN reg[k] ELSE env[k]]

BindRegistryUnder(env, reg, g) ==
    [k \in DOMAIN env \cup DOMAIN reg |->
        IF k \in DOMAIN env THEN env[k]
        ELSE IF isGoCallable(reg[k]) THEN clone(reg[k], g) ELSE reg[k]]

BindRegistry(env, reg, g) ==
    [k \in DOMAIN env \cup DOMAIN reg |->
        IF k \in DOMAIN reg
          THEN IF isGoCallable(reg[k]) THEN clone(reg[k], g) ELSE reg[k]
          ELSE env[k]]

(***************************************************************************)
(* The data passed to Eval: a Go value, or a reflect.Value handed over as  *)
(* it is (Eval lines 125-128).                                             *)
(***************************************************************************)
GoData(x) == [isValue |-> FALSE, go |-> x, rv |-> RVInvalid]

RVData(rv) == [isValue |-> TRUE, go |-> "", rv |-> rv]

ToInput(data) == IF data.isValue THEN data.rv ELSE ValueOf(data.go)

(***************************************************************************)
(* Tree evaluation (eval), for the trees Parse produces.  A function       *)
(* application sets the context of the callable and then calls it; the     *)
(* context lives in the goCallable instance, ctx[id], unset at first.      *)
(***************************************************************************)
GetCtx(id) == IF id \in DOMAIN ctx THEN ctx[id] ELSE RVInvalid

Numeric(c) == c.valid /\ c.canIface /\ ~c.ptrNil /\ ~c.callable /\ c.v \in {"1", "2"}

Double(x) == IF x = "1" THEN "2" ELSE "4"

\* The value and the error of calling fn with the context c as its argument.
CallRes(fn, c) == IF fn.v = "Twice" /\ Numeric(c) THEN RVVal(Double(c.v)) ELSE RVInvalid

CallErr(fn, c) == IF fn.v = "Twice" /\ Numeric(c) THEN "nil" ELSE "ArgumentError"

TimeVal(t) == [RVVal("instant") EXCEPT !.t = t]

(***************************************************************************)
(* Eval's result normalisation (src/jsonata_new.go:132-145).               *)
(***************************************************************************)
Out(isNil, val, err) == [isNil |-> isNil, val |-> val, err |-> err]

NormalizePartial(result, err) ==
    IF err # "nil" THEN Out(FALSE, result.v, err)
    ELSE IF ~result.valid THEN Out(TRUE, "", "ErrUndefined")
    ELSE IF ~result.canIface THEN Out(TRUE, "", err)
    ELSE IF result.ptrNil THEN Out(TRUE, "", "nil")
    ELSE Out(FALSE, result.v, "nil")

Normalize(result, err) ==
    IF err # "nil" THEN Out(TRUE, "", err)
    ELSE IF ~result.valid THEN Out(TRUE, "", "ErrUndefined")
    ELSE IF ~result.canIface THEN Out(TRUE, "", err)
    ELSE IF result.ptrNil THEN Out(TRUE, "", "nil")
    ELSE Out(FALSE, result.v, "nil")

\* The expression a frame evaluates and the override registry it binds.
FrameExpr(f) == IF f.ev # 0 THEN evs[f.ev].expression ELSE f.expr

FrameOverride(f) == IF f.ev # 0 THEN evs[f.ev].extras ELSE f.override

\* Eval returns: the environment and the clones made for it are dropped.
Returning(f, result, err) == [f EXCEPT !.pc = "done", !.env = EmptyReg, !.override = 0, !.acc = RVInvalid, !.res = result, !.rerr = err, !.out = Normalize(result, err)]

\* The override registry a call made for itself goes with the call.
DropOverride(f) == [m \in DOMAIN maps \ {f.override} |-> maps[m]]

DropClones(g) == [i \in {j \in DOMAIN ctx : j.clone # g} |-> ctx[i]]

(***************************************************************************)
(* Eval (src/jsonata_new.go:124-146) and newEnv (148-192), in the steps of *)
(* goroutine g: the environment up to the built-ins, the base registry,    *)
(* the extras, then the tree evaluation and the return.                    *)
(***************************************************************************)
EvalBeginStaleTime(g, e, data) ==
    /\ e \in DOMAIN evs
    /\ Returned(g)
    /\ LET input == ToInput(data)
           tc == timeCallables(0, g)
           env == CloneBuiltins(bindAll(bind(EmptyReg, NDollar, input), tc), g)
       IN  frames' = [frames EXCEPT ![g] = [IdleFrame EXCEPT !.pc = "bindBase", !.ev = e, !.input = input, !.env = env]]
    /\ UNCHANGED <<compilers, ces, evs, maps, ctx, clock, ret>>

EvalBegin(g, e, data) ==
    /\ e \in DOMAIN evs
    /\ Returned(g)
    /\ LET input == ToInput(data)
           tc == timeCallables(clock, g)
           env == CloneBuiltins(bindAll(bind(EmptyReg, NDollar, input), tc), g)
       IN  frames' = [frames EXCEPT ![g] = [IdleFrame EXCEPT !.pc = "bindBase", !.ev = e, !.input = input, !.env = env]]
    /\ UNCHANGED <<compilers, ces, evs, maps, ctx, clock, ret>>

EvalBindBaseRetime(g) ==
    /\ frames[g].pc = "bindBase"
    /\ LET f == frames[g]
           reg == Reg(ces[FrameExpr(f)].baseRegistry)
           env == bind(f.env, NMillis, timeCallables(clock, g)[NMillis])
       IN  frames' = [frames EXCEPT ![g] = [f EXCEPT !.pc = "bindExtras", !.env = BindRegistry(env, reg, g)]]
    /\ UNCHANGED <<compilers, ces, evs, maps, ctx, clock, ret>>

EvalBindBase(g) ==
    /\ frames[g].pc = "bindBase"
    /\ LET f == frames[g]
           reg == Reg(ces[FrameExpr(f)].baseRegistry)
       IN  frames' = [frames EXCEPT ![g] = [f EXCEPT !.pc = "bindExtras", !.env = BindRegistry(f.env, reg, g)]]
    /\ UNCHANGED <<compilers, ces, evs, maps, ctx, clock, ret>>

EvalBindExtrasCaching(g) ==
    /\ frames[g].pc = "bindExtras"
    /\ LET f == frames[g]
           reg == Reg(FrameOverride(f))
           env == BindRegistry(f.env, reg, g)
       IN  /\ frames' = [frames EXCEPT ![g] = [f EXCEPT !.pc = "eval", !.env = env]]
           /\ maps' = IF FrameOverride(f) = 0 THEN maps ELSE [maps EXCEPT ![FrameOverride(f)] = [k \in DOMAIN reg |-> env[k]]]
    /\ UNCHANGED <<compilers, ces, evs, ctx, clock, ret>>

EvalBindExtras(g) ==
    /\ frames[g].pc = "bindExtras"
    /\ LET f == frames[g]
           reg == Reg(FrameOverride(f))
       IN  frames' = [frames EXCEPT ![g] = [f EXCEPT !.pc = "eval", !.env = BindRegistry(f.env, reg, g)]]
    /\ UNCHANGED <<compilers, ces, evs, maps, ctx, clock, ret>>

EvalTree(g) ==
    /\ frames[g].pc = "eval"
    /\ LET f == frames[g]
           node == ces[FrameExpr(f)].node
           fn == lookup(f.env, node.name)
       IN  CASE node.type = "var" ->
                  /\ frames' = [frames EXCEPT ![g] = Returning(f, fn, "nil")]
                  /\ ctx' = DropClones(g)
                  /\ maps' = DropOverride(f)
             [] node.type = "apply" ->
                  IF isGoCallable(fn)
                    THEN /\ ctx' = [i \in DOMAIN ctx \cup {fn.id} |-> IF i = fn.id THEN f.input ELSE ctx[i]]
                         /\ frames' = [frames EXCEPT ![g] = [f EXCEPT !.pc = "call"]]
                         /\ UNCHANGED maps
                    ELSE /\ frames' = [frames EXCEPT ![g] = Returning(f, RVInvalid, "NotCallable")]
                         /\ ctx' = DropClones(g)
                         /\ maps' = DropOverride(f)
             [] OTHER ->
                  IF isTime(fn)
                    THEN /\ frames' = [frames EXCEPT ![g] = [f EXCEPT !.pc = "call", !.acc = TimeVal(TimeCall(fn, clock))]]
                         /\ UNCHANGED <<ctx, maps>>
                    ELSE /\ frames' = [frames EXCEPT ![g] = Returning(f, RVInvalid, "NotCallable")]
                         /\ ctx' = DropClones(g)
                         /\ maps' = DropOverride(f)
    /\ UNCHANGED <<compilers, ces, evs, clock, ret>>

EvalCall(g) ==
    /\ frames[g].pc = "call"
    /\ LET f == frames[g]
           node == ces[FrameExpr(f)].node
           fn == lookup(f.env, node.name)
           c == GetCtx(fn.id)
           same == IF f.acc = TimeVal(TimeCall(fn, clock)) THEN "true" ELSE "false"
       IN  /\ IF node.type = "apply"
                THEN frames' = [frames EXCEPT ![g] = Returning(f, CallRes(fn, c), CallErr(fn, c))]
                ELSE frames' = [frames EXCEPT ![g] = Returning(f, RVVal(same), "nil")]
           /\ maps' = DropOverride(f)
    /\ ctx' = DropClones(g)
    /\ UNCHANGED <<compilers, ces, evs, clock, ret>>

(***************************************************************************)
(* The Compiler API: NewCompiler(vars, exts), Compiler.Compile(expr) and   *)
(* Expression.Eval(data, vars).  A Compiler holds a base registry built    *)
(* once; an Expression is a tree with the Compiler's registry; Eval builds *)
(* the override registry from the call's vars, in a map of the call's own, *)
(* and then the environment as newEnv does.                                *)
(***************************************************************************)
NewCompiler(vs, exts, max) ==
    /\ Len(compilers) < max
    /\ \/ /\ \E err \in processVarsErr(vs) \cup processExtsErr(exts) :
               ret' = Ret("NewCompiler", 0, vs, exts, 0, err)
          /\ UNCHANGED <<compilers, maps>>
       \/ /\ processVarsErr(vs) \cup processExtsErr(exts) = {}
          /\ LET base == MakeMap(0)
                 values == MergeLoops(processVars(vs), processExts(exts, "compiler", Len(compilers) + 1))
             IN  /\ maps' = Store(base, values)
                 /\ compilers' = Append(compilers, [baseRegistry |-> base])
          /\ ret' = Ret("NewCompiler", 0, vs, exts, Len(compilers) + 1, "nil")
    /\ UNCHANGED <<ces, evs, frames, ctx, clock>>

CompilerCompile(k, expr, max) ==
    /\ k \in DOMAIN compilers
    /\ Len(ces) < max
    /\ IF ~ParseOk(expr)
         THEN /\ ret' = Ret("Compile", k, NoArg, NoArg, 0, "SyntaxError")
              /\ UNCHANGED ces
         ELSE /\ ces' = Append(ces, [node |-> Parse(expr), baseRegistry |-> compilers[k].baseRegistry])
              /\ ret' = Ret("Compile", k, NoArg, NoArg, Len(ces) + 1, "nil")
    /\ UNCHANGED <<compilers, evs, maps, frames, ctx, clock>>

ExprEvalBeginShared(g, x, data, vs) ==
    /\ x \in DOMAIN ces
    /\ Returned(g)
    /\ processVarsErr(vs) = {}
    /\ ces[x].baseRegistry # 0
    /\ LET input == ToInput(data)
           env == CloneBuiltins(bindAll(bind(EmptyReg, NDollar, input), timeCallables(clock, g)), g)
       IN  /\ maps' = [maps EXCEPT ![ces[x].baseRegistry] = AssignLoop(@, processVars(vs))]
           /\ frames' = [frames EXCEPT ![g] = [IdleFrame EXCEPT !.pc = "bindBase", !.expr = x, !.callVars = vs, !.input = input, !.env = env]]
    /\ UNCHANGED <<compilers, ces, evs, ctx, clock, ret>>

ExprEvalBegin(g, x, data, vs) ==
    /\ x \in DOMAIN ces
    /\ Returned(g)
    /\ \/ /\ \E err \in processVarsErr(vs) :
               frames' = [frames EXCEPT ![g] = [IdleFrame EXCEPT !.pc = "done", !.expr = x, !.callVars = vs, !.input = ToInput(data), !.rerr = err, !.out = Out(TRUE, "", err)]]
          /\ UNCHANGED maps
       \/ /\ processVarsErr(vs) = {}
          /\ LET input == ToInput(data)
                 override == MakeMap(0)
                 env == CloneBuiltins(bindAll(bind(EmptyReg, NDollar, input), timeCallables(clock, g)), g)
             IN  /\ maps' = Store(override, processVars(vs))
                 /\ frames' = [frames EXCEPT ![g] = [IdleFrame EXCEPT !.pc = "bindBase", !.expr = x, !.override = override, !.callVars = vs, !.input = input, !.env = env]]
    /\ UNCHANGED <<compilers, ces, evs, ctx, clock, ret>>

\* The wall clock moves on.
Tick ==
    /\ clock < MaxClock
    /\ clock' = clock + 1
    /\ UNCHANGED <<compilers, ces, evs, maps, frames, ctx, ret>>

(***************************************************************************)
(* Spec: goroutines that compile, derive, create Evaluators of their own,  *)
(* register into them and evaluate, all interleaved.                       *)
(***************************************************************************)
VarsBase == [n \in {NGreet, NSubstring} |-> "Hello"]

VarsHi == [n \in {NGreet} |-> "Hi"]

VarsBad == [n \in {NGreet, NDash} |-> "Hi"]

ExtsTwice == [n \in {NTwice} |-> "Twice"]

ExtsBad == [n \in {NTwice} |-> "BadSig"]

\* The goroutines of Spec: the evaluations of Spec run one after the other.
Main == 1..NMain

DataInputs == {GoData("nil"), GoData("null"), GoData("1"), RVData(RVUnexported("1"))}

Next ==
    \/ \E expr \in Sources : CompileExpression(expr, MaxCes)
    \/ \E c \in DOMAIN ces, vs \in {VarsBase, VarsBad} : WithVars(c, vs, MaxCes)
    \/ \E c \in DOMAIN ces, exts \in {ExtsTwice, ExtsBad} : WithExts(c, exts, MaxCes)
    \/ \E g \in Main, c \in DOMAIN ces : NewEvaluator(g, c, MaxEvsSeq)
    \/ \E g \in Main, e \in DOMAIN evs, vs \in {VarsHi, VarsBad} : Owns(g, e) /\ RegisterVars(g, e, vs)
    \/ \E g \in Main, e \in DOMAIN evs, exts \in {ExtsTwice, ExtsBad} : Owns(g, e) /\ RegisterExts(g, e, exts)
    \/ \E g \in Main, e \in DOMAIN evs, data \in DataInputs : Owns(g, e) /\ EvalBegin(g, e, data)
    \/ \E g \in Main : EvalBindBase(g)
    \/ \E g \in Main : EvalBindExtras(g)
    \/ \E g \in Main : EvalTree(g)
    \/ \E g \in Main : EvalCall(g)
    \/ Tick

Spec == Init /\ [][Next]_vars

(***************************************************************************)
(* SpecConc: several goroutines, each with Evaluators of its own, over     *)
(* shared CompiledExpressions; every step of one evaluation interleaves    *)
(* with the steps and the calls of the others.                             *)
(***************************************************************************)
ConcData == {GoData("1"), GoData("2")}

NextConc ==
    \/ \E expr \in {SrcApply, SrcGreet} : CompileExpression(expr, MaxCes)
    \/ \E c \in DOMAIN ces : WithVars(c, VarsBase, MaxCes)
    \/ \E c \in DOMAIN ces : WithExts(c, ExtsTwice, MaxCes)
    \/ \E g \in Procs, c \in DOMAIN ces : NewEvaluator(g, c, MaxEvs)
    \/ \E g \in Procs, e \in DOMAIN evs : Owns(g, e) /\ RegisterVars(g, e, VarsHi)
    \/ \E g \in Procs, e \in DOMAIN evs : Owns(g, e) /\ RegisterExts(g, e, ExtsTwice)
    \/ \E g \in Procs, e \in DOMAIN evs, data \in ConcData : Owns(g, e) /\ EvalBegin(g, e, data)
    \/ \E g \in Procs : EvalBindBase(g)
    \/ \E g \in Procs : EvalBindExtras(g)
    \/ \E g \in Procs : EvalTree(g)
    \/ \E g \in Procs : EvalCall(g)

SpecConc == Init /\ [][NextConc]_vars

(***************************************************************************)
(* SpecB: one Compiler, its Expressions, and goroutines that call Eval on  *)
(* a shared Expression with vars of their own, all interleaved.            *)
(***************************************************************************)
MaxCompilers == 1

VarsHey == [n \in {NGreet, NX1} |-> "Hey"]

NextB ==
    \/ \E vs \in {VarsBase, VarsBad}, exts \in {NoArg, ExtsTwice} : NewCompiler(vs, exts, MaxCompilers)
    \/ \E k \in DOMAIN compilers, expr \in {SrcGreet, SrcApply, SrcBad} : CompilerCompile(k, expr, MaxCes)
    \/ \E g \in Procs, x \in DOMAIN ces, data \in ConcData, vs \in {NoArg, VarsHi, VarsHey, VarsBad} : ExprEvalBegin(g, x, data, vs)
    \/ \E g \in Procs : EvalBindBase(g)
    \/ \E g \in Procs : EvalBindExtras(g)
    \/ \E g \in Procs : EvalTree(g)
    \/ \E g \in Procs : EvalCall(g)

SpecB == Init /\ [][NextB]_vars

(***************************************************************************)
(* SpecReg: compiling and deriving, with every mapping over a few names    *)
(* as overlay.                                                             *)
(***************************************************************************)
RegNames == {NGreet, NX1, NDash}

VarValues == {"Hello", "Hi"}

ExtFuncs == {"Twice", "BadSig"}

Maps(names, values) == UNION {[S -> values] : S \in SUBSET names}

NextReg ==
    \/ \E expr \in {SrcGreet, SrcBad} : CompileExpression(expr, 1)
    \/ \E c \in DOMAIN ces, vs \in Maps(RegNames, VarValues) : WithVars(c, vs, MaxCesReg)
    \/ \E c \in DOMAIN ces, exts \in Maps(RegNames, ExtFuncs) : WithExts(c, exts, MaxCesReg)

SpecReg == Init /\ [][NextReg]_vars

(***************************************************************************)
(* SpecNames: all four registration calls, with every set of names as the  *)
(* keys of the mapping.                                                    *)
(***************************************************************************)
NameChoices == {NGreet, NX1, NDash, NDollar}

ExtNameChoices == {NTwice, NDash}

NextNames ==
    \/ \E expr \in {SrcGreet, SrcBad} : CompileExpression(expr, 1)
    \/ \E c \in DOMAIN ces, vs \in Maps(NameChoices, {"Hi"}) : WithVars(c, vs, MaxCes)
    \/ \E c \in DOMAIN ces, exts \in Maps(ExtNameChoices, ExtFuncs) : WithExts(c, exts, MaxCes)
    \/ \E g \in Procs, c \in DOMAIN ces : NewEvaluator(g, c, MaxEvsSeq)
    \/ \E g \in Procs, e \in DOMAIN evs, vs \in Maps(NameChoices, {"Hi"}) : Owns(g, e) /\ RegisterVars(g, e, vs)
    \/ \E g \in Procs, e \in DOMAIN evs, exts \in Maps(ExtNameChoices, ExtFuncs) : Owns(g, e) /\ RegisterExts(g, e, exts)

SpecNames == Init /\ [][NextNames]_vars

(***************************************************************************)
(* Properties of the registries.                                           *)
(***************************************************************************)
DeriveOps == {"WithVars", "WithExts"}

RegisterOps == {"RegisterVars", "RegisterExts"}

RegIn(heap, m) == IF m = 0 THEN EmptyReg ELSE heap[m]

\* What the overlay of the last call binds a name to.
OverlayKeys == IF ret.op \in {"WithVars", "RegisterVars"} THEN DOMAIN ret.vs ELSE DOMAIN ret.exts

OverlayBinds(k, rv) ==
    IF ret.op \in {"WithVars", "RegisterVars"}
      THEN ~rv.callable /\ rv = ValueOf(ret.vs[k])
      ELSE rv.callable /\ rv.v = ret.exts[k]

ExistingUntouched ==
    \A i \in DOMAIN ces :
        /\ i \in DOMAIN ces'
        /\ ces'[i] = ces[i]
        /\ RegIn(maps', ces[i].baseRegistry) = RegIn(maps, ces[i].baseRegistry)

DerivedOwnsRegistry ==
    (ret.op \in DeriveOps /\ ret.res # 0) =>
        /\ ces[ret.res].node = ces[ret.recv].node
        /\ ces[ret.res].baseRegistry # 0
        /\ \A j \in DOMAIN ces : j # ret.res => ces[j].baseRegistry # ces[ret.res].baseRegistry

\* C1: no call of WithVars or WithExts, successful or failing, changes the
\* base registry of a CompiledExpression that already exists (receiver,
\* sibling or ancestor); the derived expression has the receiver's tree and
\* a registry map that no other expression holds.
C1_DerivationLeavesExistingRegistries == [][ExistingUntouched]_vars /\ [](DerivedOwnsRegistry)

\* C1 witness: a second expression derived from the first one, whose sibling
\* holds a different registry, after the receiver itself was given entries.
C1_Witness ==
    /\ Len(ces) = 3
    /\ ret.op \in DeriveOps /\ ret.recv = 2 /\ ret.res = 3
    /\ DOMAIN Reg(ces[2].baseRegistry) # {}
    /\ Reg(ces[3].baseRegistry) # Reg(ces[2].baseRegistry)

\* C2: the registry of the expression a successful WithVars/WithExts returns
\* has the keys of the receiver's registry and of the overlay, the overlay's
\* value at each overlay key and the receiver's value at every other key.
C2_MergeOverlayWins ==
    (ret.op \in DeriveOps /\ ret.err = "nil") =>
        LET B == Reg(ces[ret.recv].baseRegistry)
            D == Reg(ces[ret.res].baseRegistry)
        IN  /\ DOMAIN D = DOMAIN B \cup OverlayKeys
            /\ \A k \in OverlayKeys : OverlayBinds(k, D[k])
            /\ \A k \in DOMAIN B \ OverlayKeys : D[k] = B[k]

\* C2 witness: an overlay that collides with the receiver on one key, giving
\* it another value, and leaves another key of the receiver alone.
C2_Witness ==
    /\ ret.op = "WithVars" /\ ret.err = "nil"
    /\ LET B == Reg(ces[ret.recv].baseRegistry)
       IN  /\ \E k \in DOMAIN B \cap DOMAIN ret.vs : B[k] # ValueOf(ret.vs[k])
           /\ DOMAIN B \ DOMAIN ret.vs # {}

\* C9: a WithVars or WithExts call that fails returns a nil expression and
\* leaves every expression and every registry as it was.
C9_FailedDerivationChangesNothing ==
    [][(ret'.op \in DeriveOps /\ ret'.err # "nil") => (ret'.res = 0 /\ ces' = ces /\ maps' = maps)]_vars

\* C9 witness: a failed derivation from an expression that has a registry,
\* with a batch that held a valid entry next to the faulty one.
C9_Witness ==
    /\ ret.op \in DeriveOps /\ ret.err # "nil" /\ ret.res = 0
    /\ ces[ret.recv].baseRegistry # 0
    /\ \/ \E k \in DOMAIN ret.vs : validName(k)
       \/ \E k \in DOMAIN ret.exts : validName(k) /\ ret.exts[k] \in SupportedFuncs

LegalChars == Letters \cup Digits \cup {"_"}

AllLegal(names) == \A n \in names : \A i \in DOMAIN n : n[i] \in LegalChars

\* C10 as stated: a registration succeeds when every name is made of letters,
\* digits and underscore, and fails with a ValidationError otherwise.
C10_AsStated ==
    (ret.op \in DeriveOps \cup RegisterOps) =>
        /\ AllLegal(OverlayKeys) => ret.err = "nil"
        /\ ~AllLegal(OverlayKeys) => ret.err = "ValidationError"

\* C10 amended: a registration of variables succeeds when every name is made
\* of letters, digits and underscore; a registration of extensions succeeds
\* when, in addition, every function has a supported signature; a
\* registration fails when any name has a character outside [A-Za-z0-9_],
\* with a ValidationError when the names are the only fault of the batch.
C10_NameValidation ==
    (ret.op \in DeriveOps \cup RegisterOps) =>
        LET sigsOk == \A k \in DOMAIN ret.exts : ret.exts[k] \in SupportedFuncs
        IN  /\ (AllLegal(OverlayKeys) /\ sigsOk) => ret.err = "nil"
            /\ ~AllLegal(OverlayKeys) => ret.err # "nil"
            /\ (~AllLegal(OverlayKeys) /\ sigsOk) => ret.err = "ValidationError"

\* C10 witness: a session registration refused for a name with a character
\* outside the class, in a batch that also held a legal name.
C10_Witness ==
    /\ ret.op = "RegisterVars" /\ ret.err = "ValidationError"
    /\ \E k \in DOMAIN ret.vs : AllLegal({k})
    /\ \E k \in DOMAIN ret.vs : ~AllLegal({k})

(***************************************************************************)
(* Properties of the evaluations.                                          *)
(***************************************************************************)
\* The environment of frame f is complete: newEnv has returned.
EnvBuilt(f) == f.pc \in {"eval", "call"}

FrameNode(f) == ces[FrameExpr(f)].node

FrameBase(f) == Reg(ces[FrameExpr(f)].baseRegistry)

\* A bound value without the mark of the evaluation it was cloned for.
Unclone(v) == [v EXCEPT !.id.clone = 0]

\* Names an expression may refer to, other than $ and the time built-ins
\* that newEnv binds itself.
ProbeNames == {NGreet, NTwice, NSubstring, NX1, NDash}

\* C3: in the environment built for an evaluation a name resolves to the
\* override registry's value if the override registry binds it, else to the
\* base registry's value if the base registry binds it, else to the root
\* built-in of that name, and is unbound if no layer binds it.
C3_LookupPrecedence ==
    \A g \in Procs :
        LET f == frames[g]
        IN  EnvBuilt(f) =>
              \A n \in ProbeNames :
                  Unclone(lookup(f.env, n)) =
                      IF n \in DOMAIN Reg(FrameOverride(f)) THEN Reg(FrameOverride(f))[n]
                      ELSE IF n \in DOMAIN FrameBase(f) THEN FrameBase(f)[n]
                      ELSE IF n \in DOMAIN BaseEnv THEN BaseEnv[n]
                      ELSE RVInvalid

\* C3 witness: an environment whose base and override registries both bind
\* greet, to different values, and whose base registry binds the name of a
\* root built-in.
C3_Witness ==
    \E g \in Procs :
        LET f == frames[g]
        IN  /\ EnvBuilt(f)
            /\ NGreet \in DOMAIN FrameBase(f) \cap DOMAIN Reg(FrameOverride(f))
            /\ FrameBase(f)[NGreet] # Reg(FrameOverride(f))[NGreet]
            /\ NSubstring \in DOMAIN FrameBase(f) \cap DOMAIN BaseEnv
            /\ lookup(f.env, NX1) = RVInvalid

\* C4: during one evaluation every time built-in of its environment comes
\* from one clock reading, a second reference to $now observes what the
\* first one observed whatever the clock shows by then, and the two
\* references of "$now() = $now()" compare equal.
C4_TimeStableWithinEval ==
    \A g \in Procs :
        LET f == frames[g]
        IN  /\ \A n, m \in DOMAIN f.env :
                  (f.env[n].id.site = "tc" /\ f.env[m].id.site = "tc") => f.env[n].t = f.env[m].t
            /\ (f.pc = "call" /\ FrameNode(f).type = "eqcalls") =>
                  f.acc = TimeVal(TimeCall(lookup(f.env, NNow), clock))
            /\ (f.pc = "done" /\ FrameNode(f).type = "eqcalls" /\ f.out.err = "nil") =>
                  (~f.out.isNil /\ f.out.val = "true")

\* C4 witness: between the two references to $now the wall clock is past
\* the reading the environment was built from.
C4_Witness ==
    \E g \in Procs :
        LET f == frames[g]
        IN  /\ f.pc = "call"
            /\ FrameNode(f).type = "eqcalls"
            /\ f.acc.t < clock

\* What Eval returns when the whole call runs alone, in one piece.
SeqEnv(f) ==
    BindRegistry(BindRegistry(CloneBuiltins(bindAll(bind(EmptyReg, NDollar, f.input), timeCallables(0, 0)), 0), FrameBase(f), 0), Reg(FrameOverride(f)), 0)

SeqOut(f) ==
    LET node == FrameNode(f)
        fn == lookup(SeqEnv(f), node.name)
    IN  CASE node.type = "var" -> Normalize(fn, "nil")
          [] node.type = "apply" ->
               IF isGoCallable(fn) THEN Normalize(CallRes(fn, f.input), CallErr(fn, f.input))
               ELSE Normalize(RVInvalid, "NotCallable")
          [] OTHER ->
               IF isTime(fn) THEN Normalize(RVVal("true"), "nil")
               ELSE Normalize(RVInvalid, "NotCallable")

\* C5: with every goroutine on an Evaluator of its own, each Eval returns
\* what a sequential evaluation of the same expression, registries and input
\* returns, in every interleaving.
C5_ConcurrentEvalMatchesSequential ==
    \A g \in Procs : frames[g].pc = "done" => frames[g].out = SeqOut(frames[g])

\* C5 witness: one goroutine has its result from an extension of the shared
\* base registry while another, on its own Evaluator of the same expression
\* and with another input, has set that extension's context and not yet
\* called it.
C5_Witness ==
    \E g, h \in Procs :
        LET f == frames[g]
            k == frames[h]
        IN  /\ g # h
            /\ f.pc = "done" /\ k.pc = "call"
            /\ f.ev # k.ev /\ FrameExpr(f) = FrameExpr(k)
            /\ FrameNode(f).type = "apply"
            /\ NTwice \in DOMAIN FrameBase(f)
            /\ NTwice \notin DOMAIN Reg(FrameOverride(f)) \cup DOMAIN Reg(FrameOverride(k))
            /\ f.input # k.input
            /\ ~f.out.isNil /\ f.out.val = Double(f.input.v)

\* The goCallable instances held by the registries, and those bound in the
\* environment of goroutine g's evaluation.
RegistryIds ==
    {BaseEnv[n].id : n \in DOMAIN BaseEnv}
    \cup UNION {{maps[m][n].id : n \in {k \in DOMAIN maps[m] : isGoCallable(maps[m][k])}} : m \in DOMAIN maps}

EnvIds(g) == {frames[g].env[n].id : n \in {k \in DOMAIN frames[g].env : isGoCallable(frames[g].env[k])}}

C8_ThreeOutcomes ==
    \A g \in Procs :
        LET f == frames[g]
        IN  (f.pc = "done" /\ f.rerr = "nil") =>
              /\ ~f.res.valid => f.out = Out(TRUE, "", "ErrUndefined")
              /\ (f.res.valid /\ f.res.ptrNil) => f.out = Out(TRUE, "", "nil")
              /\ (f.res.valid /\ ~f.res.ptrNil) => f.out = Out(FALSE, f.res.v, "nil")
              /\ (f.out.isNil /\ f.out.err = "nil") => (f.res.valid /\ f.res.ptrNil)

\* A frame of Expression.Eval that is between its first step and its return.
InExprEval(f) == f.ev = 0 /\ f.expr # 0 /\ f.pc \in {"bindBase", "bindExtras", "eval", "call"}

EvalWritesNothingShared ==
    /\ \A x \in DOMAIN ces :
          /\ x \in DOMAIN ces'
          /\ ces'[x] = ces[x]
          /\ RegIn(maps', ces[x].baseRegistry) = RegIn(maps, ces[x].baseRegistry)
    /\ \A k \in DOMAIN compilers :
          /\ k \in DOMAIN compilers'
          /\ compilers'[k] = compilers[k]
          /\ RegIn(maps', compilers[k].baseRegistry) = RegIn(maps, compilers[k].baseRegistry)

CallVarsIsolated ==
    \A g \in Procs :
        LET f == frames[g]
        IN  /\ InExprEval(f) =>
                /\ f.override \in DOMAIN maps
                /\ DOMAIN maps[f.override] = DOMAIN f.callVars
                /\ \A n \in DOMAIN f.callVars : maps[f.override][n] = ValueOf(f.callVars[n])
                /\ \A x \in DOMAIN ces : ces[x].baseRegistry # f.override
                /\ \A k \in DOMAIN compilers : compilers[k].baseRegistry # f.override
                /\ \A h \in Procs \ {g} : frames[h].override # f.override
            /\ (InExprEval(f) /\ EnvBuilt(f)) =>
                \A n \in ProbeNames :
                    Unclone(lookup(f.env, n)) =
                        IF n \in DOMAIN f.callVars THEN ValueOf(f.callVars[n])
                        ELSE IF n \in DOMAIN FrameBase(f) THEN FrameBase(f)[n]
                        ELSE IF n \in DOMAIN BaseEnv THEN BaseEnv[n]
                        ELSE RVInvalid

\* C6: no step of the Compiler API changes an existing Expression, Compiler
\* or the registry one of them holds; every Expression.Eval in progress has
\* an override registry of its own holding exactly its call's vars, and its
\* environment resolves a name to its own call's var or else to the base
\* registry or the built-ins, never to a var of another call.
C6_EvalPerCallIsolation == [][EvalWritesNothingShared]_vars /\ [](CallVarsIsolated)

\* C6 witness: two calls of Eval on one Expression at once, with different
\* vars; each environment is complete, one binds x_1 and the other does not.
C6_Witness ==
    \E g, h \in Procs :
        LET f == frames[g]
            k == frames[h]
        IN  /\ g # h
            /\ InExprEval(f) /\ EnvBuilt(f)
            /\ InExprEval(k) /\ EnvBuilt(k)
            /\ f.expr = k.expr
            /\ NX1 \in DOMAIN f.callVars /\ NX1 \notin DOMAIN k.callVars
            /\ NGreet \in DOMAIN k.callVars /\ k.callVars[NGreet] # f.callVars[NGreet]
            /\ lookup(k.env, NX1) = RVInvalid

(***************************************************************************)
(* Properties of Eval's errors and of what Eval leaves alone.              *)
(***************************************************************************)
\* The step is one of an Eval of goroutine g on an Evaluator.
EvalStep(g) == frames'[g] # frames[g] /\ frames'[g].ev # 0

ErrorOutcome ==
    \A g \in Procs :
        LET f == frames[g]
        IN  (f.pc = "done" /\ f.ev # 0) =>
              /\ f.rerr # "nil" => (f.out.isNil /\ f.out.err = f.rerr)
              /\ ~(~f.out.isNil /\ f.out.err # "nil")

FailingEvalKeepsRegistries ==
    \A g \in Procs :
        (EvalStep(g) /\ ~(frames'[g].pc = "done" /\ frames'[g].rerr = "nil")) =>
            /\ evs' = evs
            /\ ces' = ces
            /\ maps' = maps

\* C11: when the tree evaluation fails, Eval returns a nil value with that
\* very error; no outcome of Eval has a value and an error at once; and no
\* step of an Eval, up to and including the return of an error, changes an
\* Evaluator, its override registry, an expression or its base registry.
C11_ErrorPropagation == [][FailingEvalKeepsRegistries]_vars /\ [](ErrorOutcome)

\* C11 witness: an extension called on an input it rejects; Eval returned its
\* error with a nil value, on an Evaluator whose override registry and whose
\* expression's base registry both hold entries.
C11_Witness ==
    \E g \in Procs :
        LET f == frames[g]
        IN  /\ f.pc = "done" /\ f.ev # 0
            /\ f.rerr = "ArgumentError"
            /\ f.out = Out(TRUE, "", "ArgumentError")
            /\ DOMAIN FrameBase(f) # {}
            /\ DOMAIN Reg(FrameOverride(f)) # {}

(***************************************************************************)
(* WithVars and WithExts (src/jsonata_new.go:36-80) in the steps of the    *)
(* goroutine g that makes the call, so that the calls of several           *)
(* goroutines on one receiver interleave with each other and with the      *)
(* evaluations: the batch is processed and the map made, the receiver's    *)
(* entries are copied, then the batch's, and the call returns.             *)
(***************************************************************************)
MaxCesDrv == 4

Deriving == {g \in Procs : frames[g].pc \in {"copyOld", "copyValues"}}

\* Lines 62-68: processVars, old := c.baseRegistry, make.
WithVarsBegin(g, c, vs, max) ==
    /\ c \in DOMAIN ces
    /\ Len(ces) + Cardinality(Deriving) < max
    /\ Returned(g)
    /\ \/ /\ \E err \in processVarsErr(vs) :
               ret' = Ret("WithVars", c, vs, NoArg, 0, err)
          /\ frames' = [frames EXCEPT ![g] = IdleFrame]
          /\ UNCHANGED maps
       \/ /\ processVarsErr(vs) = {}
          /\ LET newm == MakeMap(ces[c].baseRegistry)
             IN  /\ maps' = Store(newm, EmptyReg)
                 /\ frames' = [frames EXCEPT ![g] = [IdleFrame EXCEPT !.pc = "copyOld", !.op = "WithVars", !.expr = c, !.callVars = vs, !.values = processVars(vs), !.newm = newm]]
          /\ UNCHANGED ret
    /\ UNCHANGED <<compilers, ces, evs, ctx, clock>>

\* Lines 38-44: processExts, old := c.baseRegistry, make.
WithExtsBegin(g, c, exts, max) ==
    /\ c \in DOMAIN ces
    /\ Len(ces) + Cardinality(Deriving) < max
    /\ Returned(g)
    /\ \/ /\ \E err \in processExtsErr(exts) :
               ret' = Ret("WithExts", c, NoArg, exts, 0, err)
          /\ frames' = [frames EXCEPT ![g] = IdleFrame]
          /\ UNCHANGED maps
       \/ /\ processExtsErr(exts) = {}
          /\ LET newm == MakeMap(ces[c].baseRegistry)
             IN  /\ maps' = Store(newm, EmptyReg)
                 /\ frames' = [frames EXCEPT ![g] = [IdleFrame EXCEPT !.pc = "copyOld", !.op = "WithExts", !.expr = c, !.callVars = exts, !.values = processExts(exts, "newm", newm), !.newm = newm]]
          /\ UNCHANGED ret
    /\ UNCHANGED <<compilers, ces, evs, ctx, clock>>

\* Lines 45-47 and 69-71: for k, v := range old { newm[k] = v }.
DeriveCopyOldInPlace(g) ==
    /\ frames[g].pc = "copyOld"
    /\ LET f == frames[g]
           old == ces[f.expr].baseRegistry
       IN  frames' = [frames EXCEPT ![g] = [f EXCEPT !.pc = "copyValues", !.newm = IF old # 0 THEN old ELSE f.newm]]
    /\ UNCHANGED <<compilers, ces, evs, maps, ctx, clock, ret>>

DeriveCopyOld(g) ==
    /\ frames[g].pc = "copyOld"
    /\ LET f == frames[g]
           old == ces[f.expr].baseRegistry
       IN  /\ maps' = [maps EXCEPT ![f.newm] = AssignLoop(@, Reg(old))]
           /\ frames' = [frames EXCEPT ![g] = [f EXCEPT !.pc = "copyValues"]]
    /\ UNCHANGED <<compilers, ces, evs, ctx, clock, ret>>

\* Lines 48-55 and 72-79: for k, v := range values { newm[k] = v }, and the
\* new CompiledExpression is returned.
DeriveFinish(g) ==
    /\ frames[g].pc = "copyValues"
    /\ LET f == frames[g]
       IN  /\ maps' = [maps EXCEPT ![f.newm] = AssignLoop(@, f.values)]
           /\ ces' = Append(ces, [node |-> ces[f.expr].node, baseRegistry |-> f.newm])
           /\ ret' = IF f.op = "WithVars"
                       THEN Ret("WithVars", f.expr, f.callVars, NoArg, Len(ces) + 1, "nil")
                       ELSE Ret("WithExts", f.expr, NoArg, f.callVars, Len(ces) + 1, "nil")
    /\ frames' = [frames EXCEPT ![g] = IdleFrame]
    /\ UNCHANGED <<compilers, evs, ctx, clock>>

(***************************************************************************)
(* SpecDerive: goroutines that derive from shared CompiledExpressions,     *)
(* step by step, while others derive from them too or evaluate through     *)
(* Evaluators of their own.                                                *)
(***************************************************************************)
NextDerive ==
    \/ CompileExpression(SrcGreet, 1)
    \/ \E g \in Procs, c \in DOMAIN ces, vs \in {VarsHi, VarsBad} : WithVarsBegin(g, c, vs, MaxCesDrv)
    \/ \E g \in Procs, c \in DOMAIN ces : WithExtsBegin(g, c, ExtsTwice, MaxCesDrv)
    \/ \E g \in Procs : DeriveCopyOld(g)
    \/ \E g \in Procs : DeriveFinish(g)
    \/ \E g \in Procs, c \in DOMAIN ces : NewEvaluator(g, c, MaxEvsSeq)
    \/ \E g \in Procs, e \in DOMAIN evs : Owns(g, e) /\ EvalBegin(g, e, GoData("1"))
    \/ \E g \in Procs : EvalBindBase(g)
    \/ \E g \in Procs : EvalBindExtras(g)
    \/ \E g \in Procs : EvalTree(g)

SpecDerive == Init /\ [][NextDerive]_vars

(***************************************************************************)
(* Properties of the concurrent derivations.                               *)
(***************************************************************************)
\* The value rv is what the batch of the call op binds the name k to.
Binds(op, batch, k, rv) ==
    IF op \in {"WithVars", "RegisterVars"}
      THEN ~rv.callable /\ rv = ValueOf(batch[k])
      ELSE rv.callable /\ rv.v = batch[k]

\* The step is the return of goroutine g's WithVars or WithExts.
DeriveReturns(g) == frames[g].pc = "copyValues" /\ frames'[g].pc = "idle"

DerivedIsOwnMerge ==
    \A g \in Procs :
        DeriveReturns(g) =>
            LET f == frames[g]
                B == RegIn(maps, ces[f.expr].baseRegistry)
                d == Len(ces) + 1
            IN  /\ Len(ces') = d
                /\ ret'.op = f.op /\ ret'.recv = f.expr /\ ret'.res = d /\ ret'.err = "nil"
                /\ ces'[d].node = ces[f.expr].node
                /\ LET D == RegIn(maps', ces'[d].baseRegistry)
                   IN  /\ DOMAIN D = DOMAIN B \cup DOMAIN f.callVars
                       /\ \A k \in DOMAIN f.callVars : Binds(f.op, f.callVars, k, D[k])
                       /\ \A k \in DOMAIN B \ DOMAIN f.callVars : D[k] = B[k]

\* The map a derivation is building is held by that call alone.
BuildPrivate ==
    \A g \in Deriving :
        /\ frames[g].newm \in DOMAIN maps
        /\ \A i \in DOMAIN ces : ces[i].baseRegistry # frames[g].newm
        /\ \A e \in DOMAIN evs : evs[e].extras # frames[g].newm
        /\ \A h \in Deriving \ {g} : frames[h].newm # frames[g].newm

\* An evaluation's environment holds the entries of its expression's base
\* registry and no entry of an overlay some derivation is adding elsewhere.
EvalSeesReceiver ==
    \A g \in Procs :
        LET f == frames[g]
        IN  (f.ev # 0 /\ EnvBuilt(f)) =>
              \A n \in ProbeNames \ DOMAIN Reg(FrameOverride(f)) :
                  Unclone(lookup(f.env, n)) =
                      IF n \in DOMAIN FrameBase(f) THEN FrameBase(f)[n]
                      ELSE IF n \in DOMAIN BaseEnv THEN BaseEnv[n]
                      ELSE RVInvalid

\* C12: with WithVars and WithExts running step by step in several
\* goroutines on one receiver, next to evaluations through Evaluators of
\* that receiver, no step changes an existing expression or its registry;
\* each derivation returns the receiver's tree with the receiver's registry
\* merged with its own batch and nothing else; the map it builds is its own
\* until it returns; and every evaluation sees its expression's registry.
C12_ConcurrentDerivation ==
    [][ExistingUntouched /\ DerivedIsOwnMerge]_vars /\ [](BuildPrivate /\ EvalSeesReceiver)

\* C12 witness: two goroutines inside derivations from one receiver that has
\* a registry and an Evaluator, with different batches, one having copied
\* the receiver's entries and the other not yet.
C12_Witness ==
    \E g, h \in Procs :
        LET f == frames[g]
            k == frames[h]
        IN  /\ g # h
            /\ f.pc = "copyValues" /\ k.pc = "copyOld"
            /\ f.expr = k.expr
            /\ DOMAIN Reg(ces[f.expr].baseRegistry) # {}
            /\ f.op # k.op
            /\ DOMAIN f.callVars # DOMAIN k.callVars
            /\ \E e \in DOMAIN evs : evs[e].expression = f.expr

(***************************************************************************)
(* Properties of the Evaluators' override registries.                      *)
(***************************************************************************)
Extras(e) == maps[evs[e].extras]

ExtrasPrivate ==
    /\ \A e \in DOMAIN evs :
          /\ evs[e].extras \in DOMAIN maps
          /\ \A d \in DOMAIN evs : d # e => evs[d].extras # evs[e].extras
          /\ \A i \in DOMAIN ces : ces[i].baseRegistry # evs[e].extras
    /\ ret.op = "NewEvaluator" => Extras(ret.res) = EmptyReg

\* A name the Evaluator of an evaluation does not bind resolves as if no
\* Evaluator bound it.
SessionNamesStayHome ==
    \A g \in Procs :
        LET f == frames[g]
        IN  (f.ev # 0 /\ EnvBuilt(f)) =>
              \A n \in ProbeNames \ DOMAIN Extras(f.ev) :
                  Unclone(lookup(f.env, n)) =
                      IF n \in DOMAIN FrameBase(f) THEN FrameBase(f)[n]
                      ELSE IF n \in DOMAIN BaseEnv THEN BaseEnv[n]
                      ELSE RVInvalid

OnlyOwnRegistrationWrites ==
    \A e \in DOMAIN evs :
        /\ e \in DOMAIN evs' /\ evs'[e] = evs[e]
        /\ evs[e].extras \in DOMAIN maps'
        /\ maps'[evs[e].extras] # maps[evs[e].extras] =>
              (ret'.op \in RegisterOps /\ ret'.recv = e /\ ret'.err = "nil")

\* C13: NewEvaluator returns an Evaluator with an empty override registry in
\* a map that no other Evaluator and no expression holds; the override
\* registry of an Evaluator changes only in a successful RegisterVars or
\* RegisterExts on that very Evaluator, and no step changes an expression's
\* base registry; an evaluation resolves a name its own Evaluator does not
\* bind to the base registry, the built-ins or nothing, whatever the other
\* Evaluators bind.
C13_EvaluatorOwnsOverrides ==
    [][OnlyOwnRegistrationWrites /\ ExistingUntouched]_vars /\ [](ExtrasPrivate /\ SessionNamesStayHome)

\* C13 witness: two Evaluators of one expression; greet was just registered
\* on one of them, the other does not bind it, and an evaluation through the
\* other resolves greet to the base registry's value.
C13_Witness ==
    \E g \in Procs, e \in DOMAIN evs :
        LET f == frames[g]
        IN  /\ ret.op = "RegisterVars" /\ ret.err = "nil" /\ ret.recv = e
            /\ NGreet \in DOMAIN Extras(e)
            /\ f.ev # 0 /\ f.ev # e /\ EnvBuilt(f)
            /\ evs[f.ev].expression = evs[e].expression
            /\ NGreet \notin DOMAIN Extras(f.ev)
            /\ NGreet \in DOMAIN FrameBase(f)
            /\ lookup(f.env, NGreet) = FrameBase(f)[NGreet]
            /\ lookup(f.env, NGreet) # Extras(e)[NGreet]

(***************************************************************************)
(* SpecSession: one Evaluator, every batch of variables and of extensions  *)
(* over a few names registered into it in every order, and evaluations in  *)
(* between.  Every batch of extensions that brings twice brings greet too. *)
(***************************************************************************)
SessNames == {NGreet, NTwice, NDash}

SessionExts == {x \in Maps(SessNames, ExtFuncs) : NTwice \in DOMAIN x => NGreet \in DOMAIN x}

NextSession ==
    \/ \E expr \in {SrcGreet, SrcApply} : CompileExpression(expr, 1)
    \/ \E c \in DOMAIN ces : WithVars(c, VarsBase, MaxCes)
    \/ \E g \in Main, c \in DOMAIN ces : NewEvaluator(g, c, MaxEvsSeq)
    \/ \E g \in Main, e \in DOMAIN evs, vs \in Maps(RegNames, VarValues) : Owns(g, e) /\ RegisterVars(g, e, vs)
    \/ \E g \in Main, e \in DOMAIN evs, exts \in SessionExts : Owns(g, e) /\ RegisterExts(g, e, exts)
    \/ \E g \in Main, e \in DOMAIN evs : Owns(g, e) /\ EvalBegin(g, e, GoData("1"))
    \/ \E g \in Main : EvalBindBase(g)
    \/ \E g \in Main : EvalBindExtras(g)
    \/ \E g \in Main : EvalTree(g)
    \/ \E g \in Main : EvalCall(g)

SpecSession == Init /\ [][NextSession]_vars

(***************************************************************************)
(* Properties of the registrations on an Evaluator.                        *)
(***************************************************************************)
\* The batch of a RegisterVars or RegisterExts call r.
Batch(r) == IF r.op = "RegisterVars" THEN r.vs ELSE r.exts

RegistrationAllOrNothing ==
    ret'.op \in RegisterOps =>
        LET e == ret'.recv
            E == maps[evs[e].extras]
            F == maps'[evs[e].extras]
        IN  IF ret'.err # "nil"
              THEN F = E
              ELSE /\ DOMAIN F = DOMAIN E \cup DOMAIN Batch(ret')
                   /\ \A k \in DOMAIN Batch(ret') : Binds(ret'.op, Batch(ret'), k, F[k])
                   /\ \A k \in DOMAIN E \ DOMAIN Batch(ret') : F[k] = E[k]

\* C14: a RegisterVars or RegisterExts that fails leaves the override
\* registry exactly as it was, with no entry of the batch added; one that
\* succeeds sets every key of the batch to the batch's value and leaves
\* every other key of the override registry with its value.
C14_RegistrationAllOrNothing == [][RegistrationAllOrNothing]_vars

\* C14 witness: a registration refused for one name, in a batch with a valid
\* name the override registry does not bind, on an Evaluator that already
\* binds another name.
C14_Witness ==
    /\ ret.op = "RegisterVars" /\ ret.err # "nil"
    /\ DOMAIN Extras(ret.recv) # {}
    /\ \E k \in DOMAIN ret.vs : validName(k) /\ k \notin DOMAIN Extras(ret.recv)

RegistrationsPersist ==
    \A e \in DOMAIN evs :
        \A k \in DOMAIN maps[evs[e].extras] :
            /\ k \in DOMAIN maps'[evs[e].extras]
            /\ maps'[evs[e].extras][k] # maps[evs[e].extras][k] =>
                  /\ ret'.op \in RegisterOps /\ ret'.recv = e /\ ret'.err = "nil"
                  /\ k \in DOMAIN Batch(ret')
                  /\ Binds(ret'.op, Batch(ret'), k, maps'[evs[e].extras][k])

LastWriteSeen ==
    /\ (ret.op \in RegisterOps /\ ret.err = "nil") =>
          \A k \in DOMAIN Batch(ret) : Binds(ret.op, Batch(ret), k, Extras(ret.recv)[k])
    /\ \A g \in Procs :
          LET f == frames[g]
          IN  /\ (f.ev # 0 /\ EnvBuilt(f)) =>
                    \A n \in DOMAIN Extras(f.ev) : Unclone(lookup(f.env, n)) = Extras(f.ev)[n]
              /\ (f.ev # 0 /\ f.pc = "done" /\ FrameNode(f).type = "var" /\ FrameNode(f).name \in DOMAIN Extras(f.ev)) =>
                    Unclone(f.res) = Extras(f.ev)[FrameNode(f).name]

\* C16: a name bound in an Evaluator's override registry stays bound, and
\* its value changes only in a successful registration on that Evaluator
\* whose batch holds the name, to that batch's value, be the old value a
\* variable or an extension and the new one either; and every evaluation
\* through the Evaluator sees, for each name, the value the registry holds,
\* which is the one of the last successful batch that held the name.
C16_SessionLastWriteWins == [][RegistrationsPersist]_vars /\ [](LastWriteSeen)

\* C16 witness: greet came as an extension in the batch that brought twice,
\* was then registered as a variable, and an evaluation after a further
\* call that did not hold greet still sees the variable.
C16_Witness ==
    \E g \in Procs :
        LET f == frames[g]
        IN  /\ f.ev # 0 /\ f.pc = "done"
            /\ FrameNode(f).name = NGreet
            /\ NTwice \in DOMAIN Extras(f.ev) /\ Extras(f.ev)[NTwice].callable
            /\ ret.op = "RegisterVars" /\ ret.err = "nil" /\ NGreet \notin DOMAIN ret.vs
            /\ ~Extras(f.ev)[NGreet].callable
            /\ f.out = Out(FALSE, "Hi", "nil")
            /\ NGreet \in DOMAIN FrameBase(f)

(***************************************************************************)
(* Properties of what Eval reads and writes.                               *)
(***************************************************************************)
EvalWritesNoRegistry ==
    \A g \in Procs :
        EvalStep(g) =>
            /\ evs' = evs
            /\ ces' = ces
            /\ maps' = maps

\* What newEnv binds a name to, given the registries, the input and the
\* instant of the snapshot: the layers in their order, then $ and the time
\* built-ins.
Expected(f, g, n) ==
    IF n \in DOMAIN Extras(f.ev) THEN Extras(f.ev)[n]
    ELSE IF n \in DOMAIN FrameBase(f) THEN FrameBase(f)[n]
    ELSE IF n \in DOMAIN BaseEnv THEN BaseEnv[n]
    ELSE IF n = NDollar THEN f.input
    ELSE timeCallables(f.env[n].t, g)[n]

EnvFromRegistriesOnly ==
    \A g \in Procs :
        LET f == frames[g]
        IN  (f.ev # 0 /\ EnvBuilt(f)) =>
              /\ DOMAIN f.env = {NDollar, NNow, NMillis} \cup DOMAIN BaseEnv \cup DOMAIN FrameBase(f) \cup DOMAIN Extras(f.ev)
              /\ \A n \in DOMAIN f.env : Unclone(f.env[n]) = Expected(f, g, n)

RegistryCallablesUntouched == \A i \in DOMAIN ctx : i \notin RegistryIds

\* C15: no step of an Eval changes an Evaluator, its override registry, an
\* expression or its base registry; the context a call sets goes into the
\* evaluation's own clone, never into a callable that the built-in root
\* environment or a registry holds; and the environment an Eval has built
\* holds exactly $ as the input, the time built-ins of one snapshot, and the
\* built-ins, base entries and override entries as the registries hold them
\* now, so it carries nothing over from an earlier Eval.
C15_EvalReadsRegistriesOnly ==
    [][EvalWritesNoRegistry]_vars /\ [](EnvFromRegistriesOnly /\ RegistryCallablesUntouched)

\* C15 witness: an Eval has set the context of its clone of an extension
\* that the override registry holds, with entries in the base registry too.
C15_Witness ==
    \E g \in Procs :
        LET f == frames[g]
        IN  /\ f.ev # 0 /\ f.pc = "call"
            /\ FrameNode(f).type = "apply"
            /\ NTwice \in DOMAIN Extras(f.ev)
            /\ lookup(f.env, NTwice).id \in DOMAIN ctx
            /\ Unclone(lookup(f.env, NTwice)).id \in RegistryIds
            /\ DOMAIN FrameBase(f) # {}

(***************************************************************************)
(* SpecInput: goroutines that evaluate the expression $ with inputs of     *)
(* their own, on expressions and Evaluators that batches naming $ were     *)
(* offered to.                                                             *)
(***************************************************************************)
VarsDollar == [n \in {NGreet, NDollar} |-> "Hi"]

NextInput ==
    \/ CompileExpression(SrcRoot, 1)
    \/ \E c \in DOMAIN ces, vs \in {VarsBase, VarsDollar} : WithVars(c, vs, MaxCes)
    \/ \E g \in Procs, c \in DOMAIN ces : NewEvaluator(g, c, MaxEvs)
    \/ \E g \in Procs, e \in DOMAIN evs, vs \in {VarsHi, VarsDollar} : Owns(g, e) /\ RegisterVars(g, e, vs)
    \/ \E g \in Procs, e \in DOMAIN evs, data \in ConcData : Owns(g, e) /\ EvalBegin(g, e, data)
    \/ \E g \in Procs : EvalBindBase(g)
    \/ \E g \in Procs : EvalBindExtras(g)
    \/ \E g \in Procs : EvalTree(g)

SpecInput == Init /\ [][NextInput]_vars

(***************************************************************************)
(* Properties of the binding of $.                                         *)
(***************************************************************************)
\* The frame is inside newEnv or past it, in the tree evaluation.
InEval(f) == f.ev # 0 /\ f.pc \in {"bindBase", "bindExtras", "eval", "call"}

DollarIsInput ==
    \A g \in Procs :
        LET f == frames[g]
        IN  /\ InEval(f) => (NDollar \in DOMAIN f.env /\ f.env[NDollar] = f.input)
            /\ (f.ev # 0 /\ f.pc = "done" /\ FrameNode(f) = Parse(SrcRoot)) => f.res = f.input

NoRegistryBindsDollar == \A m \in DOMAIN maps : NDollar \notin DOMAIN maps[m]

\* C17: from the first step of newEnv to the end of the tree evaluation the
\* environment of an Eval binds $ to the input of that very call, and the
\* expression $ evaluates to it; no registry map, base or override, ever
\* holds the name $.
C17_DollarIsTheInput == DollarIsInput /\ NoRegistryBindsDollar

\* C17 witness: two evaluations at once with different inputs, each with its
\* environment complete, after a registration that named $ was refused.
C17_Witness ==
    \E g, h \in Procs :
        LET f == frames[g]
            k == frames[h]
        IN  /\ g # h
            /\ InEval(f) /\ EnvBuilt(f) /\ InEval(k) /\ EnvBuilt(k)
            /\ f.input # k.input
            /\ lookup(f.env, NDollar) = f.input /\ lookup(k.env, NDollar) = k.input
            /\ ret.op = "RegisterVars" /\ ret.err = "ValidationError" /\ NDollar \in DOMAIN ret.vs
            /\ DOMAIN FrameBase(f) # {}

(***************************************************************************)
(* SpecTime: goroutines that evaluate $now() = $now() through Evaluators   *)
(* of their own, again and again, while the wall clock moves on.           *)
(***************************************************************************)
NextTime ==
    \/ CompileExpression(SrcNow, 1)
    \/ \E g \in Procs, c \in DOMAIN ces : NewEvaluator(g, c, MaxEvs)
    \/ \E g \in Procs, e \in DOMAIN evs, vs \in {VarsHi, VarsBad} : Owns(g, e) /\ RegisterVars(g, e, vs)
    \/ \E g \in Procs, e \in DOMAIN evs, data \in ConcData : Owns(g, e) /\ EvalBegin(g, e, data)
    \/ \E g \in Procs : EvalBindBase(g)
    \/ \E g \in Procs : EvalBindExtras(g)
    \/ \E g \in Procs : EvalTree(g)
    \/ \E g \in Procs : EvalCall(g)
    \/ Tick

SpecTime == Init /\ [][NextTime]_vars

(***************************************************************************)
(* Properties of the time snapshot.                                        *)
(***************************************************************************)
\* The step is the first of an Eval of goroutine g.
EvalBegins(g) == Returned(g) /\ frames'[g].pc = "bindBase" /\ frames'[g].ev # 0

SnapshotAtBegin ==
    \A g \in Procs :
        EvalBegins(g) =>
            /\ frames'[g].env[NNow].t = clock
            /\ frames'[g].env[NMillis].t = clock

ObservesOwnSnapshot ==
    \A g \in Procs :
        LET f == frames[g]
        IN  /\ InEval(f) => (isTime(f.env[NNow]) /\ f.env[NNow].id.idx = g /\ f.env[NNow].t <= clock)
            /\ (InEval(f) /\ f.pc = "call" /\ FrameNode(f).type = "eqcalls") =>
                  f.acc = TimeVal(f.env[NNow].t)

\* C18: every Eval binds time built-ins made from the clock reading of its
\* own first step, whatever an earlier Eval on the same Evaluator or another
\* goroutine's Eval has read, and what $now() returns during the evaluation
\* is that reading.
C18_SnapshotPerEvaluation == [][SnapshotAtBegin]_vars /\ [](ObservesOwnSnapshot)

\* C18 witness: two evaluations at once that have each called $now() and got
\* different instants, on two Evaluators of one expression.
C18_Witness ==
    \E g, h \in Procs :
        LET f == frames[g]
            k == frames[h]
        IN  /\ g # h
            /\ InEval(f) /\ f.pc = "call" /\ InEval(k) /\ k.pc = "call"
            /\ f.acc.t = 0 /\ k.acc.t = 1
            /\ evs[f.ev].expression = evs[k.ev].expression

(***************************************************************************)
(* RegisterVars, RegisterExts (src/jsonata_new.go:100-121) and the loop of *)
(* newEnv over e.extras (181-189) one map access at a time, for Evaluators *)
(* that several goroutines use: an assignment and an iteration step of two *)
(* goroutines on one map interleave.  Go maps are not safe for that: the   *)
(* runtime may stop the process with a fatal error when it notices a write *)
(* in flight, and an iteration may or may not produce an entry that is     *)
(* being added.                                                            *)
(***************************************************************************)
Crashed == \E g \in Procs : frames[g].pc = "fatal"

\* Another goroutine is inside an assignment loop on the map m.
WriterOn(m, g) == \E h \in Procs \ {g} : frames[h].pc = "assign" /\ FrameOverride(frames[h]) = m

\* Lines 113-116: processVars and the early return.
RegisterVarsBegin(g, e, vs) ==
    /\ ~Crashed
    /\ e \in DOMAIN evs
    /\ Returned(g)
    /\ \/ /\ \E err \in processVarsErr(vs) :
               ret' = Ret("RegisterVars", e, vs, NoArg, 0, err)
          /\ frames' = [frames EXCEPT ![g] = IdleFrame]
       \/ /\ processVarsErr(vs) = {}
          /\ frames' = [frames EXCEPT ![g] = [IdleFrame EXCEPT !.pc = "assign", !.op = "RegisterVars", !.ev = e, !.callVars = vs, !.values = processVars(vs)]]
          /\ UNCHANGED ret
    /\ UNCHANGED <<compilers, ces, evs, maps, ctx, clock>>

\* Lines 101-104: processExts and the early return.
RegisterExtsBegin(g, e, exts) ==
    /\ ~Crashed
    /\ e \in DOMAIN evs
    /\ Returned(g)
    /\ \/ /\ \E err \in processExtsErr(exts) :
               ret' = Ret("RegisterExts", e, NoArg, exts, 0, err)
          /\ frames' = [frames EXCEPT ![g] = IdleFrame]
       \/ /\ processExtsErr(exts) = {}
          /\ frames' = [frames EXCEPT ![g] = [IdleFrame EXCEPT !.pc = "assign", !.op = "RegisterExts", !.ev = e, !.callVars = exts, !.values = processExts(exts, "ev", e)]]
          /\ UNCHANGED ret
    /\ UNCHANGED <<compilers, ces, evs, maps, ctx, clock>>

\* Lines 105-107 and 117-119, one iteration: e.extras[k] = v.
RegisterAssign(g) ==
    /\ ~Crashed
    /\ frames[g].pc = "assign"
    /\ LET f == frames[g]
       IN  \E k \in DOMAIN f.values :
               /\ maps' = [maps EXCEPT ![FrameOverride(f)] = AssignLoop(@, [n \in {k} |-> f.values[k]])]
               /\ frames' = [frames EXCEPT ![g] = [f EXCEPT !.values = [n \in DOMAIN f.values \ {k} |-> f.values[n]]]]
    /\ UNCHANGED <<compilers, ces, evs, ctx, clock, ret>>

\* Lines 108 and 120: the loop is over, return nil.
RegisterReturn(g) ==
    /\ ~Crashed
    /\ frames[g].pc = "assign"
    /\ DOMAIN frames[g].values = {}
    /\ LET f == frames[g]
       IN  ret' = IF f.op = "RegisterVars"
                    THEN Ret("RegisterVars", f.ev, f.callVars, NoArg, 0, "nil")
                    ELSE Ret("RegisterExts", f.ev, NoArg, f.callVars, 0, "nil")
    /\ frames' = [frames EXCEPT ![g] = IdleFrame]
    /\ UNCHANGED <<compilers, ces, evs, maps, ctx, clock>>

\* Lines 181-189, one iteration: an entry of e.extras that the loop has not
\* produced yet is bound, a goCallable as a clone.
EvalBindExtrasEntry(g) ==
    /\ ~Crashed
    /\ frames[g].pc = "bindExtras"
    /\ LET f == frames[g]
           reg == Reg(FrameOverride(f))
       IN  \E k \in DOMAIN reg \ f.visited :
               frames' = [frames EXCEPT ![g] = [f EXCEPT !.env = BindRegistry(f.env, [n \in {k} |-> reg[k]], g), !.visited = f.visited \cup {k}]]
    /\ UNCHANGED <<compilers, ces, evs, maps, ctx, clock, ret>>

\* The iteration passes over an entry without producing it, which it may do
\* while another goroutine is writing the map.
EvalBindExtrasSkip(g) ==
    /\ ~Crashed
    /\ frames[g].pc = "bindExtras"
    /\ WriterOn(FrameOverride(frames[g]), g)
    /\ LET f == frames[g]
           reg == Reg(FrameOverride(f))
       IN  \E k \in DOMAIN reg \ f.visited :
               frames' = [frames EXCEPT ![g] = [f EXCEPT !.visited = f.visited \cup {k}]]
    /\ UNCHANGED <<compilers, ces, evs, maps, ctx, clock, ret>>

\* Line 191: the loop has produced every entry, newEnv returns.
EvalBindExtrasEnd(g) ==
    /\ ~Crashed
    /\ frames[g].pc = "bindExtras"
    /\ DOMAIN Reg(FrameOverride(frames[g])) \subseteq frames[g].visited
    /\ frames' = [frames EXCEPT ![g] = [frames[g] EXCEPT !.pc = "eval", !.visited = {}]]
    /\ UNCHANGED <<compilers, ces, evs, maps, ctx, clock, ret>>

\* The runtime notices the write of another goroutine during a map access
\* of g and stops the process: "concurrent map iteration and map write" or
\* "concurrent map writes".
MapFault(g) ==
    /\ ~Crashed
    /\ frames[g].pc \in {"bindExtras", "assign"}
    /\ WriterOn(FrameOverride(frames[g]), g)
    /\ frames' = [frames EXCEPT ![g] = [frames[g] EXCEPT !.pc = "fatal"]]
    /\ UNCHANGED <<compilers, ces, evs, maps, ctx, clock, ret>>

(***************************************************************************)
(* SpecShared: goroutines that register into and evaluate through any      *)
(* Evaluator, their own or another goroutine's.                            *)
(***************************************************************************)
NextShared ==
    \/ ~Crashed /\ CompileExpression(SrcGreet, 1)
    \/ \E g \in Procs, c \in DOMAIN ces : ~Crashed /\ NewEvaluator(g, c, MaxEvs)
    \/ \E g \in Procs, e \in DOMAIN evs, vs \in {VarsHey, VarsBad} : RegisterVarsBegin(g, e, vs)
    \/ \E g \in Procs, e \in DOMAIN evs : RegisterExtsBegin(g, e, ExtsTwice)
    \/ \E g \in Procs : RegisterAssign(g)
    \/ \E g \in Procs : RegisterReturn(g)
    \/ \E g \in Procs, e \in DOMAIN evs : ~Crashed /\ EvalBegin(g, e, GoData("1"))
    \/ \E g \in Procs : ~Crashed /\ EvalBindBase(g)
    \/ \E g \in Procs : EvalBindExtrasEntry(g)
    \/ \E g \in Procs : EvalBindExtrasSkip(g)
    \/ \E g \in Procs : EvalBindExtrasEnd(g)
    \/ \E g \in Procs : ~Crashed /\ EvalTree(g)
    \/ \E g \in Procs : MapFault(g)

SpecShared == Init /\ [][NextShared]_vars

(***************************************************************************)
(* Properties of an Evaluator that goroutines share, and of one they do    *)
(* not.                                                                    *)
(***************************************************************************)
\* Every call in progress or returned is on an Evaluator of the caller.
Disciplined == \A g \in Procs : frames[g].ev # 0 => Owns(g, frames[g].ev)

\* A goroutine is inside its assignment loop on a map while another is
\* inside the loop of newEnv over that map, or inside an assignment loop too.
RaceOn(g, h) ==
    /\ g # h
    /\ frames[h].pc = "assign"
    /\ frames[g].pc \in {"bindExtras", "assign"}
    /\ FrameOverride(frames[g]) = FrameOverride(frames[h])

\* newEnv's loop over the override registry is through, and the environment
\* holds one entry of the batch VarsHey and not the other.
Torn(f) ==
    /\ f.ev # 0
    /\ EnvBuilt(f) \/ (f.pc = "bindExtras" /\ DOMAIN Reg(FrameOverride(f)) \subseteq f.visited)
    /\ (lookup(f.env, NGreet) = ValueOf(VarsHey[NGreet])) # (lookup(f.env, NX1) = ValueOf(VarsHey[NX1]))

NoRace ==
    /\ ~Crashed
    /\ \A g, h \in Procs : ~RaceOn(g, h)
    /\ \A g \in Procs : ~Torn(frames[g])

\* C19: as long as every goroutine calls only Evaluators it created, no
\* write to an override registry happens while that registry is iterated or
\* written by another call, no environment holds part of a batch, and the
\* runtime never faults.
C19_OneEvaluatorPerGoroutine == []Disciplined => []NoRace

\* C19 witness: on one Evaluator, a goroutine is between the two assignments
\* of a batch while another, inside newEnv's loop over the same map, has
\* bound the entry already assigned and goes on to evaluate without the
\* other.
C19_Witness ==
    \E g, h \in Procs :
        LET f == frames[g]
            k == frames[h]
        IN  /\ RaceOn(g, h)
            /\ f.ev = k.ev
            /\ f.pc = "bindExtras" /\ NGreet \in f.visited
            /\ k.callVars = VarsHey /\ DOMAIN k.values = {NX1}
            /\ Torn(f)

====
